---- MODULE Spec2Model ----
(***************************************************************************)
(* Model of shopify_sync_app: the block parser of parser.py                *)
(* (parse_pricing_matrix), and of streamlit_app.py the price lookup        *)
(* (build_price_lookup), the variant builder (build_variants_for_product,  *)
(* make_variant_sku), the sync loop with its Shopify requests, and the     *)
(* price sheet reader (read_prices_from_excel).                            *)
(*                                                                         *)
(* Strings are sequences of one-character strings, so that strip, lower,   *)
(* replace, slicing and the code-point ordering are computed.  Floats are  *)
(* integers in thousandths (10904 is 10.904); a price rounded to two       *)
(* decimals is an integer in hundredths.                                   *)
(***************************************************************************)
EXTENDS Integers, Sequences, FiniteSets, TLC

VARIABLES
    \* parse_pricing_matrix (parser.py)
    sheet, df, i, j, n, titolo, sku, quantities, rows, result, pc,
    \* build_price_lookup / build_variants_for_product (streamlit_app.py)
    prices_df, df_prod, price_lookup, variants, warnings, vpc,
    \* make_variant_sku (streamlit_app.py)
    base_sku, qty, pos, sku1, sku2, spc,
    \* the sync loop and the Shopify requests it issues (streamlit_app.py)
    groups, gi, mpc, existing, prod_id, current, vi, created, created_summary,
    netcalls, remote, nextId,
    \* read_prices_from_excel (streamlit_app.py)
    price_sheet, dfp, melted, rpc

parseVars == <<sheet, df, i, j, n, titolo, sku, quantities, rows, result, pc>>
variantVars == <<prices_df, df_prod, price_lookup, variants, warnings, vpc>>
skuVars == <<base_sku, qty, pos, sku1, sku2, spc>>
syncVars == <<groups, gi, mpc, existing, prod_id, current, vi, created,
              created_summary, netcalls, remote, nextId>>
meltVars == <<price_sheet, dfp, melted, rpc>>
vars == <<parseVars, variantVars, skuVars, syncVars, meltVars>>

-----------------------------------------------------------------------------
(* Bounds of the model *)

\* rows of an input sheet
MaxRows == 4

\* length of the longest base SKU made of one repeated character
MaxBaseLen == 66

\* rows of a price table
MaxPriceRows == 2

\* rows of a product table
MaxProdRows == 2

-----------------------------------------------------------------------------
(* Strings *)

\* The characters the model uses, in ascending code-point order.
Alphabet ==
    << " ", "+", "-", ".", "0", "1", "2", "3", "4", "5", "6", "7", "8", "9",
       "A", "B", "C", "E", "F", "G", "L", "N", "O", "Q", "R", "S", "T", "X",
       "a", "b", "c", "e", "i", "l", "n", "o", "p", "r", "s", "t", "u", "x",
       "À", "È", "à", "è", "é", "ì", "ò", "ù" >>

\* ord(c), up to the order-preserving renumbering of Alphabet
Code(c) == CHOOSE k \in 1..Len(Alphabet) : Alphabet[k] = c

\* Python's s < t on str: lexicographic by code point
StrLess(s, t) ==
    \E k \in 1..Len(t) :
        /\ \A m \in 1..(k - 1) : m <= Len(s) /\ s[m] = t[m]
        /\ \/ k = Len(s) + 1
           \/ k <= Len(s) /\ Code(s[k]) < Code(t[k])

RECURSIVE LStrip(_)
LStrip(s) == IF s /= <<>> /\ Head(s) = " " THEN LStrip(Tail(s)) ELSE s

RECURSIVE RStrip(_)
RStrip(s) ==
    IF s /= <<>> /\ s[Len(s)] = " " THEN RStrip(SubSeq(s, 1, Len(s) - 1)) ELSE s

\* str.strip()
Strip(s) == RStrip(LStrip(s))

Digits == <<"0", "1", "2", "3", "4", "5", "6", "7", "8", "9">>
IsDigit(c) == \E d \in 1..10 : Digits[d] = c
DigitVal(c) == (CHOOSE d \in 1..10 : Digits[d] = c) - 1

RECURSIVE NatOfDigits(_)
NatOfDigits(s) ==
    IF s = <<>> THEN 0
    ELSE 10 * NatOfDigits(SubSeq(s, 1, Len(s) - 1)) + DigitVal(s[Len(s)])

-----------------------------------------------------------------------------
(* Cells of a sheet *)

NaN == [k |-> "nan"]
None == [k |-> "none"]
Num(v) == [k |-> "num", v |-> v]
Txt(s) == [k |-> "str", s |-> s]

\* pd.notna / pd.isna (None counts as missing)
notna(c) == c.k \notin {"nan", "none"}
isna(c) == ~notna(c)

\* row.get(col): None when the row has no such column
RowGet(row, col) == IF col \in DOMAIN row THEN row[col] ELSE None

\* float(text): surrounding blanks stripped, digits with at most one point
\* and at most three decimals; anything else raises
ParseFloat(s) ==
    LET t == Strip(s)
        dots == {k \in 1..Len(t) : t[k] = "."}
        ip == IF dots = {} THEN t
              ELSE SubSeq(t, 1, (CHOOSE k \in dots : TRUE) - 1)
        fp == IF dots = {} THEN <<>>
              ELSE SubSeq(t, (CHOOSE k \in dots : TRUE) + 1, Len(t))
        pad == fp \o SubSeq(<<"0", "0", "0">>, 1, 3 - Len(fp))
    IN  IF /\ Cardinality(dots) <= 1
           /\ Len(ip) + Len(fp) >= 1
           /\ Len(fp) <= 3
           /\ \A k \in 1..Len(ip) : IsDigit(ip[k])
           /\ \A k \in 1..Len(fp) : IsDigit(fp[k])
        THEN [ok |-> TRUE, v |-> 1000 * NatOfDigits(ip) + NatOfDigits(pad)]
        ELSE [ok |-> FALSE]

\* float(val) of a present cell, in thousandths; ok is FALSE when it raises
FloatOf(c) ==
    CASE c.k = "num" -> [ok |-> TRUE, v |-> c.v]
      [] c.k = "str" -> ParseFloat(c.s)
      [] OTHER -> [ok |-> FALSE]

\* int(x): truncation toward zero
IntOf(v) == IF v >= 0 THEN v \div 1000 ELSE -((-v) \div 1000)

\* round(x, 2), in hundredths (the model's values are never exact ties)
Round2(v) == IF v >= 0 THEN (v + 5) \div 10 ELSE -((-v + 5) \div 10)

\* str(pos) of a text cell
StrOf(c) == c.s

-----------------------------------------------------------------------------
(* parse_pricing_matrix: the input sheets *)

ColsQtyFirst == <<"Titolo Prodotto", "SKU", "Posizione Stampa", "Quantità", "Unnamed: 4">>
ColsQtyLast == <<"Titolo Prodotto", "SKU", "Posizione Stampa", "Costo Fornitore", "Quantità">>
ColsNoQty == <<"Titolo Prodotto", "SKU", "Posizione Stampa", "Prezzo", "Unnamed: 4">>
Layouts == {ColsQtyFirst, ColsQtyLast, ColsNoQty}

Range(s) == {s[k] : k \in 1..Len(s)}
IndexOf(s, x) == CHOOSE k \in 1..Len(s) : s[k] = x

\* The kinds of row a sheet is made of: the cells of its five columns.
RowPool ==
    { \* header row: title and sku, no position, breakpoints 1 and 2
      << Txt(<<"A">>), Txt(<<"S", "1">>), NaN, Num(1000), Num(2000) >>,
      \* header row of another product: a non-numeric cell, and 2.7 for breakpoint 2
      << Txt(<<"B">>), Txt(<<"S", "1">>), NaN, Txt(<<"x">>), Num(2700) >>,
      \* title, sku and position all present
      << Txt(<<"A">>), Txt(<<"S", "1">>), Txt(<<"F", "r">>), Num(10900), Num(15000) >>,
      \* position rows: an absent cell, a non-numeric cell, a numeric text cell
      << NaN, NaN, Txt(<<"F", "r">>), NaN, Num(15000) >>,
      << NaN, NaN, Txt(<<" ", "R", "e", " ">>), Txt(<<"a", "b", "c">>), Num(12906) >>,
      << NaN, NaN, Txt(<<"F", "r">>), Num(10904), Txt(<<"9", ".", "5">>) >>,
      \* a title alone: neither a header nor a position row
      << Txt(<<"A">>), NaN, NaN, NaN, NaN >> }

MkRow(cols, cells) == [c \in Range(cols) |-> cells[IndexOf(cols, c)]]

RECURSIVE SeqsUpTo(_, _)
SeqsUpTo(S, m) ==
    IF m = 0 THEN {<<>>}
    ELSE LET shorter == SeqsUpTo(S, m - 1)
         IN  shorter \cup {Append(q, x) : q \in {t \in shorter : Len(t) = m - 1}, x \in S}

Sheets ==
    { [columns |-> cols, data |-> [k \in 1..Len(cells) |-> MkRow(cols, cells[k])]] :
        cols \in Layouts, cells \in SeqsUpTo(RowPool, MaxRows) }

-----------------------------------------------------------------------------
(* parse_pricing_matrix: the code *)

RECURSIVE FilterSeq(_, _)
\* [x for x in s if x in keep]
FilterSeq(s, keep) ==
    IF s = <<>> THEN <<>>
    ELSE (IF Head(s) \in keep THEN <<Head(s)>> ELSE <<>>) \o FilterSeq(Tail(s), keep)

\* df[[c for c in df.columns if not df[c].isna().all()]]
DropEmptyCols(d) ==
    LET keep == {c \in Range(d.columns) : \E k \in 1..Len(d.data) : notna(d.data[k][c])}
    IN  [columns |-> FilterSeq(d.columns, keep),
         data |-> [k \in 1..Len(d.data) |-> [c \in keep |-> d.data[k][c]]]]

\* the header test without its position condition
IsHeaderAnyPosition(row) ==
    /\ notna(RowGet(row, "Titolo Prodotto"))
    /\ notna(RowGet(row, "SKU"))

\* the test that makes a row the quantity row of a new product
IsHeader(row) ==
    /\ notna(RowGet(row, "Titolo Prodotto"))
    /\ notna(RowGet(row, "SKU"))
    /\ isna(RowGet(row, "Posizione Stampa"))

\* the test that ends the block being read
IsNextBlock(r2) ==
    /\ notna(RowGet(r2, "Titolo Prodotto"))
    /\ notna(RowGet(r2, "SKU"))

\* every column taken as a quantity column
QtyColsAll(columns) == columns

\* the columns from "Quantità" on
QtyCols(columns) == SubSeq(columns, IndexOf(columns, "Quantità"), Len(columns))

RECURSIVE QuantitiesOf(_, _)
\* the (column, int(float(cell))) pairs of the header row, unconvertible cells skipped
QuantitiesOf(row, qty_cols) ==
    IF qty_cols = <<>> THEN <<>>
    ELSE LET c == Head(qty_cols)
             val == row[c]
             f == FloatOf(val)
         IN  (IF notna(val) /\ f.ok THEN << <<c, IntOf(f.v)>> >> ELSE <<>>)
                 \o QuantitiesOf(row, Tail(qty_cols))

RECURSIVE RowPricesAbort(_, _, _, _)
\* as RowPrices, with an unconvertible price cell ending the row's loop
RowPricesAbort(r2, qs, tit, sk) ==
    IF qs = <<>> THEN <<>>
    ELSE LET price_val == RowGet(r2, Head(qs)[1])
             f == FloatOf(price_val)
         IN  IF notna(price_val) /\ ~f.ok THEN <<>>
             ELSE (IF notna(price_val)
                   THEN << [title |-> tit, sku |-> sk,
                            pos |-> Strip(StrOf(r2["Posizione Stampa"])),
                            q |-> Head(qs)[2], prezzo |-> Round2(f.v)] >>
                   ELSE <<>>) \o RowPricesAbort(r2, Tail(qs), tit, sk)

RECURSIVE RowPrices(_, _, _, _)
\* the rows appended for one position row: one per breakpoint whose price cell
\* is present and converts with float()
RowPrices(r2, qs, tit, sk) ==
    IF qs = <<>> THEN <<>>
    ELSE LET price_val == RowGet(r2, Head(qs)[1])
             f == FloatOf(price_val)
         IN  (IF notna(price_val) /\ f.ok
              THEN << [title |-> tit, sku |-> sk,
                       pos |-> Strip(StrOf(r2["Posizione Stampa"])),
                       q |-> Head(qs)[2], prezzo |-> Round2(f.v)] >>
              ELSE <<>>) \o RowPrices(r2, Tail(qs), tit, sk)

\* the sort key order of sort_values(["Titolo Prodotto","SKU","Posizione Stampa","Quantità"])
KeyLess(a, b) ==
    \/ StrLess(a.title, b.title)
    \/ a.title = b.title /\ StrLess(a.sku, b.sku)
    \/ a.title = b.title /\ a.sku = b.sku /\ StrLess(a.pos, b.pos)
    \/ a.title = b.title /\ a.sku = b.sku /\ a.pos = b.pos /\ a.q < b.q

RECURSIVE InsertSorted(_, _)
\* x placed after every element not greater than it (the sort is stable)
InsertSorted(x, s) ==
    IF s = <<>> THEN <<x>>
    ELSE IF KeyLess(x, Head(s)) THEN <<x>> \o s
         ELSE <<Head(s)>> \o InsertSorted(x, Tail(s))

RECURSIVE SortFrom(_, _)
SortFrom(s, acc) ==
    IF s = <<>> THEN acc ELSE SortFrom(Tail(s), InsertSorted(Head(s), acc))

\* result as left unsorted
SortValuesNone(s) == s

\* result.sort_values([...]).reset_index(drop=True)
SortValues(s) == SortFrom(s, <<>>)

\* the value titolo and sku hold before they are assigned
Unset == <<>>

\* lines 14-25: the empty columns dropped, rows = [], i = 0, n = len(df)
Prepare ==
    /\ pc = "start"
    /\ df' = DropEmptyCols(sheet)
    /\ rows' = <<>> /\ i' = 0 /\ n' = Len(sheet.data)
    /\ pc' = "outer"
    /\ UNCHANGED <<sheet, j, titolo, sku, quantities, result>>
    /\ UNCHANGED <<variantVars, skuVars, syncVars, meltVars>>

\* lines 26-59: row i is a header row and the table has a "Quantità" column
OuterHeader ==
    /\ pc = "outer" /\ i < n
    /\ IsHeader(df.data[i + 1])
    /\ "Quantità" \in Range(df.columns)
    /\ titolo' = df.data[i + 1]["Titolo Prodotto"].s
    /\ sku' = df.data[i + 1]["SKU"].s
    /\ quantities' = QuantitiesOf(df.data[i + 1], QtyCols(df.columns))
    /\ j' = i + 1
    /\ pc' = "inner"
    /\ UNCHANGED <<sheet, df, i, n, rows, result>>
    /\ UNCHANGED <<variantVars, skuVars, syncVars, meltVars>>

\* lines 35-36: row i is a header row and there is no "Quantità" column
OuterRaise ==
    /\ pc = "outer" /\ i < n
    /\ IsHeader(df.data[i + 1])
    /\ "Quantità" \notin Range(df.columns)
    /\ titolo' = df.data[i + 1]["Titolo Prodotto"].s
    /\ sku' = df.data[i + 1]["SKU"].s
    /\ pc' = "error"
    /\ UNCHANGED <<sheet, df, i, j, n, quantities, rows, result>>
    /\ UNCHANGED <<variantVars, skuVars, syncVars, meltVars>>

\* lines 87-88: row i is no header row
OuterSkip ==
    /\ pc = "outer" /\ i < n
    /\ ~IsHeader(df.data[i + 1])
    /\ i' = i + 1
    /\ UNCHANGED <<sheet, df, j, n, titolo, sku, quantities, rows, result, pc>>
    /\ UNCHANGED <<variantVars, skuVars, syncVars, meltVars>>

\* as InnerBreak, with the outer index advanced past the row that ended the block
InnerBreakSkip ==
    /\ pc = "inner" /\ j < n
    /\ IsNextBlock(df.data[j + 1])
    /\ i' = j + 1
    /\ pc' = "outer"
    /\ UNCHANGED <<sheet, df, j, n, titolo, sku, quantities, rows, result>>
    /\ UNCHANGED <<variantVars, skuVars, syncVars, meltVars>>

\* lines 60-64, 86: row j starts the next block
InnerBreak ==
    /\ pc = "inner" /\ j < n
    /\ IsNextBlock(df.data[j + 1])
    /\ i' = j
    /\ pc' = "outer"
    /\ UNCHANGED <<sheet, df, j, n, titolo, sku, quantities, rows, result>>
    /\ UNCHANGED <<variantVars, skuVars, syncVars, meltVars>>

\* lines 60-83: row j belongs to the block; a position row appends its prices
InnerRow ==
    /\ pc = "inner" /\ j < n
    /\ ~IsNextBlock(df.data[j + 1])
    /\ rows' = IF notna(RowGet(df.data[j + 1], "Posizione Stampa"))
               THEN rows \o RowPrices(df.data[j + 1], quantities, titolo, sku)
               ELSE rows
    /\ j' = j + 1
    /\ UNCHANGED <<sheet, df, i, n, titolo, sku, quantities, result, pc>>
    /\ UNCHANGED <<variantVars, skuVars, syncVars, meltVars>>

\* as InnerEnd, with the inner loop left one row before the end of the input
InnerEndEarly ==
    /\ pc = "inner" /\ j >= n - 1
    /\ i' = j
    /\ pc' = "outer"
    /\ UNCHANGED <<sheet, df, j, n, titolo, sku, quantities, rows, result>>
    /\ UNCHANGED <<variantVars, skuVars, syncVars, meltVars>>

\* lines 60, 86: the input ends the block
InnerEnd ==
    /\ pc = "inner" /\ j >= n
    /\ i' = j
    /\ pc' = "outer"
    /\ UNCHANGED <<sheet, df, j, n, titolo, sku, quantities, rows, result>>
    /\ UNCHANGED <<variantVars, skuVars, syncVars, meltVars>>

\* lines 90-94: the rows sorted and returned
Finish ==
    /\ pc = "outer" /\ i >= n
    /\ result' = SortValues(rows)
    /\ pc' = "done"
    /\ UNCHANGED <<sheet, df, i, j, n, titolo, sku, quantities, rows>>
    /\ UNCHANGED <<variantVars, skuVars, syncVars, meltVars>>

NextParse ==
    \/ Prepare
    \/ OuterHeader
    \/ OuterRaise
    \/ OuterSkip
    \/ InnerBreak
    \/ InnerRow
    \/ InnerEnd
    \/ Finish

\* a call of parse_pricing_matrix on any sheet of Sheets
InitParse ==
    /\ sheet \in Sheets
    /\ df = sheet /\ i = 0 /\ j = 0 /\ n = 0
    /\ titolo = Unset /\ sku = Unset /\ quantities = <<>>
    /\ rows = <<>> /\ result = <<>> /\ pc = "start"
    /\ prices_df = <<>> /\ df_prod = <<>> /\ price_lookup = <<>>
    /\ variants = <<>> /\ warnings = <<>> /\ vpc = "idle"
    /\ base_sku = <<>> /\ qty = 0 /\ pos = <<>>
    /\ sku1 = <<>> /\ sku2 = <<>> /\ spc = "idle"
    /\ groups = <<>> /\ gi = 0 /\ mpc = "idle" /\ existing = None /\ prod_id = 0
    /\ current = <<>> /\ vi = 0 /\ created = <<>> /\ created_summary = <<>>
    /\ netcalls = <<>> /\ remote = <<>> /\ nextId = 0
    /\ price_sheet = [columns |-> <<>>, data |-> <<>>] /\ dfp = price_sheet
    /\ melted = <<>> /\ rpc = "idle"

SpecParse == InitParse /\ [][NextParse]_vars

-----------------------------------------------------------------------------
(* make_variant_sku *)

Uppers == <<"A", "B", "C", "E", "F", "G", "L", "N", "O", "P", "Q", "R", "S", "T", "X", "À", "È">>
Lowers == <<"a", "b", "c", "e", "f", "g", "l", "n", "o", "p", "q", "r", "s", "t", "x", "à", "è">>

LowerChar(c) ==
    IF \E m \in 1..Len(Uppers) : Uppers[m] = c
    THEN Lowers[CHOOSE m \in 1..Len(Uppers) : Uppers[m] = c]
    ELSE c

\* str.lower()
Lower(s) == [m \in 1..Len(s) |-> LowerChar(s[m])]

RECURSIVE Replace(_, _, _)
\* str.replace(old, new) for a one-character old
Replace(s, old, new) ==
    IF s = <<>> THEN <<>>
    ELSE (IF Head(s) = old THEN new ELSE <<Head(s)>>) \o Replace(Tail(s), old, new)

RECURSIVE DecimalOf(_)
\* the decimal digits of a non-negative integer, as f"{qty}" writes them
DecimalOf(m) ==
    IF m < 10 THEN <<Digits[m + 1]>>
    ELSE DecimalOf(m \div 10) \o <<Digits[(m % 10) + 1]>>

\* pos_slug: lower, then the replacements in the order the code chains them
PosSlug(p) ==
    Replace(Replace(Replace(Replace(Replace(Replace(Replace(Replace(
        Lower(p), " ", <<"-">>), "+", <<"p", "l", "u", "s">>),
        "à", <<"a">>), "è", <<"e">>), "é", <<"e">>), "ì", <<"i">>),
        "ò", <<"o">>), "ù", <<"u">>)

\* s[:m]
Take(s, m) == SubSeq(s, 1, IF Len(s) < m THEN Len(s) ELSE m)

\* the longest variant SKU the code returns
MaxSkuLen == 63

\* the slice taken one character too long
make_variant_sku_long(b, q, p) ==
    Take(b \o <<"-">> \o DecimalOf(q) \o <<"-">> \o PosSlug(p), MaxSkuLen + 1)

\* f"{base_sku}-{qty}-{pos_slug}"[:63]
make_variant_sku(b, q, p) ==
    Take(b \o <<"-">> \o DecimalOf(q) \o <<"-">> \o PosSlug(p), MaxSkuLen)

\* the inputs of the calls
Repeat(c, m) == [x \in 1..m |-> c]

BaseSkus ==
    {Repeat("X", m) : m \in 0..MaxBaseLen}
        \cup {<<"L", "O", "N", "G", "B", "A", "S", "E", "1", "2", "3", "4", "5", "6", "7", "8", "9", "0", "1", "2", "3", "4", "5", "6", "7", "8", "9", "0">>, <<"T", "E", "E", "1">>}

Quantities == {1, 7, 20, 100}

PosLabels ==
    { <<"F", "r", "o", "n", "t", "e", " ", "+", " ", "R", "e", "t", "r", "o">>, <<"L", "a", "t", "o", " ", "C", "u", "o", "r", "e">>, <<"Q", "u", "a", "l", "i", "t", "à", " ", "È">>, <<"R", "e", "t", "r", "o">> }

\* first call
CallSku ==
    /\ spc = "start"
    /\ sku1' = make_variant_sku(base_sku, qty, pos)
    /\ spc' = "once"
    /\ UNCHANGED <<base_sku, qty, pos, sku2>>
    /\ UNCHANGED <<parseVars, variantVars, syncVars, meltVars>>

\* second call, with the same arguments
CallSkuAgain ==
    /\ spc = "once"
    /\ sku2' = make_variant_sku(base_sku, qty, pos)
    /\ spc' = "twice"
    /\ UNCHANGED <<base_sku, qty, pos, sku1>>
    /\ UNCHANGED <<parseVars, variantVars, syncVars, meltVars>>

NextSku ==
    \/ CallSku
    \/ CallSkuAgain

\* calls of make_variant_sku on any base SKU, quantity and label of the sets above
InitSku ==
    /\ base_sku \in BaseSkus /\ qty \in Quantities /\ pos \in PosLabels
    /\ sku1 = <<>> /\ sku2 = <<>> /\ spc = "start"
    /\ sheet = [columns |-> <<>>, data |-> <<>>]
    /\ df = sheet /\ i = 0 /\ j = 0 /\ n = 0
    /\ titolo = Unset /\ sku = Unset /\ quantities = <<>>
    /\ rows = <<>> /\ result = <<>> /\ pc = "idle"
    /\ prices_df = <<>> /\ df_prod = <<>> /\ price_lookup = <<>>
    /\ variants = <<>> /\ warnings = <<>> /\ vpc = "idle"
    /\ groups = <<>> /\ gi = 0 /\ mpc = "idle" /\ existing = None /\ prod_id = 0
    /\ current = <<>> /\ vi = 0 /\ created = <<>> /\ created_summary = <<>>
    /\ netcalls = <<>> /\ remote = <<>> /\ nextId = 0
    /\ price_sheet = [columns |-> <<>>, data |-> <<>>] /\ dfp = price_sheet
    /\ melted = <<>> /\ rpc = "idle"

SpecSku == InitSku /\ [][NextSku]_vars

-----------------------------------------------------------------------------
(* build_price_lookup and build_variants_for_product *)

\* rows of a price table: position label, quantity, price in thousandths
PriceRowPool ==
    { [pos |-> <<"F", "r">>, q |-> 1, prezzo |-> 12900],
      [pos |-> <<" ", "F", "r", " ">>, q |-> 1, prezzo |-> 20000],
      [pos |-> <<"F", "r">>, q |-> 2, prezzo |-> 20000],
      [pos |-> <<"F", "r">>, q |-> 2, prezzo |-> 9996],
      [pos |-> <<"R", "e">>, q |-> 1, prezzo |-> 12900],
      [pos |-> <<"R", "e">>, q |-> 1, prezzo |-> 15004] }

\* rows of a product's table: base sku, position label, quantity
ProdRowPool ==
    { [sku |-> <<"T", "1">>, pos |-> p, q |-> x] :
        p \in {<<"F", "r">>, <<"R", "e", " ">>}, x \in {1, 2} }

\* (str(r["posizione stampa"]).strip(), int(r["quantità"]))
LookupKey(r) == <<Strip(r.pos), r.q>>

RECURSIVE LookupFromFirst(_, _)
\* as LookupFrom, with a key already present left as it is
LookupFromFirst(t, acc) ==
    IF t = <<>> THEN acc
    ELSE LET key == LookupKey(Head(t))
         IN  LookupFromFirst(Tail(t),
                 [x \in DOMAIN acc \cup {key} |->
                     IF x \in DOMAIN acc THEN acc[x] ELSE Head(t).prezzo])

RECURSIVE LookupFrom(_, _)
\* the loop of build_price_lookup: lookup[key] = float(r["prezzo"]) row by row
LookupFrom(t, acc) ==
    IF t = <<>> THEN acc
    ELSE LET key == LookupKey(Head(t))
         IN  LookupFrom(Tail(t),
                 [x \in DOMAIN acc \cup {key} |->
                     IF x = key THEN Head(t).prezzo ELSE acc[x]])

\* the lookup that keeps the first price of a key
build_price_lookup_first(t) == LookupFromFirst(t, <<>>)

build_price_lookup(t) == LookupFrom(t, <<>>)

\* price_lookup.get(key): no price when the key is absent
NoPrice == [some |-> FALSE]
LookupGet(lookup, key) ==
    IF key \in DOMAIN lookup THEN [some |-> TRUE, v |-> lookup[key]] ELSE NoPrice

\* f"{price:.2f}" of a non-negative price
Fmt2(v) ==
    LET c == Round2(v)
    IN  DecimalOf(c \div 100) \o <<".", Digits[((c % 100) \div 10) + 1], Digits[(c % 10) + 1]>>

\* the variant appended for a row and its price
VariantOf(row, price) ==
    [option1 |-> row.q,
     option2 |-> Strip(row.pos),
     price |-> Fmt2(price),
     sku |-> make_variant_sku(row.sku, row.q, Strip(row.pos)),
     inventory_management |-> "shopify",
     inventory_quantity |-> 9999,
     taxable |-> TRUE]

RECURSIVE BuildFromDefault(_, _, _)
\* as BuildFrom, with a row without price given the price 0 instead of dropped
BuildFromDefault(t, lookup, acc) ==
    IF t = <<>> THEN acc
    ELSE LET price == LookupGet(lookup, LookupKey(Head(t)))
         IN  BuildFromDefault(Tail(t), lookup,
                 [acc EXCEPT !.variants =
                     Append(@, VariantOf(Head(t), IF price.some THEN price.v ELSE 0))])

RECURSIVE BuildFrom(_, _, _)
\* the loop of build_variants_for_product; acc holds the variants built and the
\* st.warning messages shown so far (each names the position and the quantity)
BuildFrom(t, lookup, acc) ==
    IF t = <<>> THEN acc
    ELSE LET key == LookupKey(Head(t))
             price == LookupGet(lookup, key)
         IN  IF ~price.some
             THEN BuildFrom(Tail(t), lookup, [acc EXCEPT !.warnings = Append(@, key)])
             ELSE BuildFrom(Tail(t), lookup,
                      [acc EXCEPT !.variants = Append(@, VariantOf(Head(t), price.v))])

build_variants_default(t, lookup) ==
    BuildFromDefault(t, lookup, [variants |-> <<>>, warnings |-> <<>>])

build_variants_for_product(t, lookup) ==
    BuildFrom(t, lookup, [variants |-> <<>>, warnings |-> <<>>])

\* price_lookup = build_price_lookup(prices_df)
CallBuildPriceLookup ==
    /\ vpc = "start"
    /\ price_lookup' = build_price_lookup(prices_df)
    /\ vpc' = "lookup"
    /\ UNCHANGED <<prices_df, df_prod, variants, warnings>>
    /\ UNCHANGED <<parseVars, skuVars, syncVars, meltVars>>

\* variants = build_variants_for_product(df_grp, price_lookup)
CallBuildVariants ==
    /\ vpc = "lookup"
    /\ LET built == build_variants_for_product(df_prod, price_lookup)
       IN  /\ variants' = built.variants
           /\ warnings' = warnings \o built.warnings
    /\ vpc' = "built"
    /\ UNCHANGED <<prices_df, df_prod, price_lookup>>
    /\ UNCHANGED <<parseVars, skuVars, syncVars, meltVars>>

NextVariants ==
    \/ CallBuildPriceLookup
    \/ CallBuildVariants

\* a price table and a product table of the pools above, the lookup not yet built
InitVariants ==
    /\ prices_df \in SeqsUpTo(PriceRowPool, MaxPriceRows)
    /\ df_prod \in SeqsUpTo(ProdRowPool, MaxProdRows)
    /\ price_lookup = <<>> /\ variants = <<>> /\ warnings = <<>> /\ vpc = "start"
    /\ sheet = [columns |-> <<>>, data |-> <<>>]
    /\ df = sheet /\ i = 0 /\ j = 0 /\ n = 0
    /\ titolo = Unset /\ sku = Unset /\ quantities = <<>>
    /\ rows = <<>> /\ result = <<>> /\ pc = "idle"
    /\ base_sku = <<>> /\ qty = 0 /\ pos = <<>>
    /\ sku1 = <<>> /\ sku2 = <<>> /\ spc = "idle"
    /\ groups = <<>> /\ gi = 0 /\ mpc = "idle" /\ existing = None /\ prod_id = 0
    /\ current = <<>> /\ vi = 0 /\ created = <<>> /\ created_summary = <<>>
    /\ netcalls = <<>> /\ remote = <<>> /\ nextId = 0
    /\ price_sheet = [columns |-> <<>>, data |-> <<>>] /\ dfp = price_sheet
    /\ melted = <<>> /\ rpc = "idle"

SpecVariants == InitVariants /\ [][NextVariants]_vars

-----------------------------------------------------------------------------
(* The sync loop (button handler) and the Shopify requests it issues.  The    *)
(* shop is remote: remote[p] is the list of variants of product id p.  A      *)
(* request may fail (status >= 400 or a RequestException).                    *)

\* variants a product of the shop holds before the run, at most
MaxRemoteVariants == 2

\* the groups of products_df.groupby(["titolo prodotto", "sku"]), in key order
GroupA ==
    [title |-> <<"A">>, sku |-> <<"T", "1">>,
     rows |-> << [sku |-> <<"T", "1">>, pos |-> <<"F", "r">>, q |-> 1],
                 [sku |-> <<"T", "1">>, pos |-> <<"R", "e", " ">>, q |-> 1] >>]
GroupB ==
    [title |-> <<"B">>, sku |-> <<"T", "2">>,
     rows |-> << [sku |-> <<"T", "2">>, pos |-> <<"R", "e">>, q |-> 2] >>]
SyncGroups == { <<GroupA>>, <<GroupB>>, <<GroupA, GroupB>> }

\* the price lookups of the runs: every combination priced, or only two
SyncLookups ==
    { build_price_lookup(<< [pos |-> <<"F", "r">>, q |-> 1, prezzo |-> 12900],
                            [pos |-> <<"R", "e">>, q |-> 1, prezzo |-> 15004],
                            [pos |-> <<"R", "e">>, q |-> 2, prezzo |-> 20000] >>),
      build_price_lookup(<< [pos |-> <<"F", "r">>, q |-> 1, prezzo |-> 12900],
                            [pos |-> <<"R", "e">>, q |-> 1, prezzo |-> 15004] >>) }

\* the variants of the one product the shop may hold before the run
OldVariants(m) == [x \in 1..m |-> [id |-> x, sku |-> <<"o", "l", "d">>]]
Remotes == {<<>>} \cup { <<OldVariants(m)>> : m \in 1..MaxRemoteVariants }

Request(method, path, id) == [method |-> method, path |-> path, id |-> id]

\* the requests of shopify_find_product_by_sku_or_title, by the way it ends:
\* found by the SKU search, found by title, or not found (a failing request
\* inside it is swallowed by its except clauses)
FindRequests(via, found) ==
    CASE via = "sku" ->
            << Request("GET", "/variants.json", 0),
               Request("GET", "/products/{id}.json", found) >>
      [] via = "title" ->
            << Request("GET", "/variants.json", 0),
               Request("GET", "/products.json", 0),
               Request("GET", "/products/{id}.json", found) >>
      [] OTHER ->
            << Request("GET", "/variants.json", 0),
               Request("GET", "/products.json", 0) >>

\* line 367: the next group of the loop
BeginProduct ==
    /\ mpc = "loop" /\ gi < Len(groups)
    /\ mpc' = "find"
    /\ UNCHANGED <<groups, gi, existing, prod_id, current, vi, created,
                   created_summary, netcalls, remote, nextId>>
    /\ UNCHANGED <<parseVars, variantVars, skuVars, meltVars>>

\* lines 367, 400-402: no group is left
SyncDone ==
    /\ mpc = "loop" /\ gi >= Len(groups)
    /\ mpc' = "done"
    /\ UNCHANGED <<groups, gi, existing, prod_id, current, vi, created,
                   created_summary, netcalls, remote, nextId>>
    /\ UNCHANGED <<parseVars, variantVars, skuVars, meltVars>>

\* line 234: existing = shopify_find_product_by_sku_or_title(base_sku or "", title)
FindProduct ==
    /\ mpc = "find"
    /\ \E via \in {"sku", "title", "none"}, found \in 0..Len(remote) :
           /\ (via = "none") <=> (found = 0)
           /\ existing' = IF found = 0 THEN None ELSE [k |-> "product", id |-> found]
           /\ netcalls' = netcalls \o FindRequests(via, found)
    /\ mpc' = "upsert"
    /\ UNCHANGED <<groups, gi, prod_id, current, vi, created, created_summary,
                   remote, nextId>>
    /\ UNCHANGED <<parseVars, variantVars, skuVars, meltVars>>

\* lines 245-251, 377: the PUT or POST of the product succeeds
UpsertOk ==
    /\ mpc = "upsert"
    /\ IF existing /= None
       THEN /\ netcalls' = Append(netcalls, Request("PUT", "/products/{id}.json", existing.id))
            /\ prod_id' = existing.id
            /\ UNCHANGED <<remote, nextId>>
       ELSE /\ netcalls' = Append(netcalls, Request("POST", "/products.json", 0))
            /\ remote' = Append(remote, << [id |-> nextId, sku |-> <<>>] >>)
            /\ prod_id' = Len(remote) + 1
            /\ nextId' = nextId + 1
    /\ mpc' = "build"
    /\ UNCHANGED <<groups, gi, existing, current, vi, created, created_summary>>
    /\ UNCHANGED <<parseVars, variantVars, skuVars, meltVars>>

\* lines 245-251 and 190-203: the PUT or POST fails and the exception ends the run
UpsertFail ==
    /\ mpc = "upsert"
    /\ netcalls' = Append(netcalls,
           IF existing /= None THEN Request("PUT", "/products/{id}.json", existing.id)
           ELSE Request("POST", "/products.json", 0))
    /\ mpc' = "aborted"
    /\ UNCHANGED <<groups, gi, existing, prod_id, current, vi, created,
                   created_summary, remote, nextId>>
    /\ UNCHANGED <<parseVars, variantVars, skuVars, meltVars>>

\* lines 380-383: variants = build_variants_for_product(df_grp, price_lookup);
\* an empty list is warned about and the loop continues with the next group
SyncBuildVariants ==
    /\ mpc = "build"
    /\ LET built == build_variants_for_product(groups[gi + 1].rows, price_lookup)
       IN  /\ variants' = built.variants
           /\ IF built.variants = <<>>
              THEN /\ warnings' = warnings \o built.warnings
                                      \o << <<"Nessuna variante costruita">> >>
                   /\ gi' = gi + 1
                   /\ mpc' = "loop"
              ELSE /\ warnings' = warnings \o built.warnings
                   /\ gi' = gi
                   /\ mpc' = "list"
    /\ UNCHANGED <<groups, existing, prod_id, current, vi, created, created_summary,
                   netcalls, remote, nextId>>
    /\ UNCHANGED <<prices_df, df_prod, price_lookup, vpc>>
    /\ UNCHANGED <<parseVars, skuVars, meltVars>>

\* lines 261-262: the variants of the product are listed
ListVariantsOk ==
    /\ mpc = "list"
    /\ netcalls' = Append(netcalls, Request("GET", "/products/{id}/variants.json", prod_id))
    /\ current' = remote[prod_id]
    /\ vi' = 0
    /\ mpc' = "delete"
    /\ UNCHANGED <<groups, gi, existing, prod_id, created, created_summary, remote, nextId>>
    /\ UNCHANGED <<parseVars, variantVars, skuVars, meltVars>>

\* lines 261 and 190-203: the listing fails and the exception ends the run
ListVariantsFail ==
    /\ mpc = "list"
    /\ netcalls' = Append(netcalls, Request("GET", "/products/{id}/variants.json", prod_id))
    /\ mpc' = "aborted"
    /\ UNCHANGED <<groups, gi, existing, prod_id, current, vi, created,
                   created_summary, remote, nextId>>
    /\ UNCHANGED <<parseVars, variantVars, skuVars, meltVars>>

\* the variants of s other than the one with this id
WithoutVariant(s, vid) ==
    LET keep == {x \in 1..Len(s) : s[x].id /= vid}
    IN  [x \in 1..Cardinality(keep) |->
            s[CHOOSE y \in keep : Cardinality({z \in keep : z < y}) = x - 1]]

\* lines 265-271: the DELETE of the next listed variant succeeds
DeleteVariantOk ==
    /\ mpc = "delete" /\ vi < Len(current)
    /\ netcalls' = Append(netcalls, Request("DELETE", "/variants/{id}.json", current[vi + 1].id))
    /\ remote' = [remote EXCEPT ![prod_id] = WithoutVariant(@, current[vi + 1].id)]
    /\ vi' = vi + 1
    /\ UNCHANGED <<groups, gi, mpc, existing, prod_id, current, created,
                   created_summary, nextId>>
    /\ UNCHANGED <<parseVars, variantVars, skuVars, meltVars>>

\* as DeleteVariantFail, without the try/except: the exception ends the run
DeleteVariantFailRaises ==
    /\ mpc = "delete" /\ vi < Len(current)
    /\ netcalls' = Append(netcalls, Request("DELETE", "/variants/{id}.json", current[vi + 1].id))
    /\ mpc' = "aborted"
    /\ UNCHANGED <<groups, gi, existing, prod_id, current, vi, created,
                   created_summary, remote, nextId>>
    /\ UNCHANGED <<parseVars, variantVars, skuVars, meltVars>>

\* lines 265-271: the DELETE fails; it is warned about and the loop goes on
DeleteVariantFail ==
    /\ mpc = "delete" /\ vi < Len(current)
    /\ netcalls' = Append(netcalls, Request("DELETE", "/variants/{id}.json", current[vi + 1].id))
    /\ warnings' = Append(warnings, <<"Impossibile cancellare variante", current[vi + 1].id>>)
    /\ vi' = vi + 1
    /\ UNCHANGED <<groups, gi, mpc, existing, prod_id, current, created,
                   created_summary, remote, nextId>>
    /\ UNCHANGED <<prices_df, df_prod, price_lookup, variants, vpc>>
    /\ UNCHANGED <<parseVars, skuVars, meltVars>>

\* lines 265, 274: every listed variant was attempted; created = []
DeleteDone ==
    /\ mpc = "delete" /\ vi >= Len(current)
    /\ created' = <<>>
    /\ vi' = 0
    /\ mpc' = "create"
    /\ UNCHANGED <<groups, gi, existing, prod_id, current, created_summary,
                   netcalls, remote, nextId>>
    /\ UNCHANGED <<parseVars, variantVars, skuVars, meltVars>>

\* lines 275-279: the POST of the next variant succeeds
CreateVariantOk ==
    /\ mpc = "create" /\ vi < Len(variants)
    /\ netcalls' = Append(netcalls, Request("POST", "/products/{id}/variants.json", prod_id))
    /\ remote' = [remote EXCEPT ![prod_id] =
                      Append(@, [id |-> nextId, sku |-> variants[vi + 1].sku])]
    /\ created' = Append(created, [id |-> nextId, sku |-> variants[vi + 1].sku])
    /\ nextId' = nextId + 1
    /\ vi' = vi + 1
    /\ UNCHANGED <<groups, gi, mpc, existing, prod_id, current, created_summary>>
    /\ UNCHANGED <<parseVars, variantVars, skuVars, meltVars>>

\* lines 277 and 190-203: the POST fails and the exception ends the run
CreateVariantFail ==
    /\ mpc = "create" /\ vi < Len(variants)
    /\ netcalls' = Append(netcalls, Request("POST", "/products/{id}/variants.json", prod_id))
    /\ mpc' = "aborted"
    /\ UNCHANGED <<groups, gi, existing, prod_id, current, vi, created,
                   created_summary, remote, nextId>>
    /\ UNCHANGED <<parseVars, variantVars, skuVars, meltVars>>

\* lines 280, 385-398: the created variants returned and summarised
ProductDone ==
    /\ mpc = "create" /\ vi >= Len(variants)
    /\ created_summary' = Append(created_summary,
           [Titolo |-> groups[gi + 1].title, SkuBase |-> groups[gi + 1].sku,
            Varianti |-> Len(created)])
    /\ gi' = gi + 1
    /\ mpc' = "loop"
    /\ UNCHANGED <<groups, existing, prod_id, current, vi, created, netcalls,
                   remote, nextId>>
    /\ UNCHANGED <<parseVars, variantVars, skuVars, meltVars>>

NextSync ==
    \/ BeginProduct
    \/ SyncDone
    \/ FindProduct
    \/ UpsertOk
    \/ UpsertFail
    \/ SyncBuildVariants
    \/ ListVariantsOk
    \/ ListVariantsFail
    \/ DeleteVariantOk
    \/ DeleteVariantFail
    \/ DeleteDone
    \/ CreateVariantOk
    \/ CreateVariantFail
    \/ ProductDone

\* the button pressed with the product groups and the price lookup loaded and
\* the credentials set (lines 359-366)
InitSync ==
    /\ groups \in SyncGroups
    /\ price_lookup \in SyncLookups
    /\ remote \in Remotes
    /\ nextId = MaxRemoteVariants + 1
    /\ gi = 0 /\ mpc = "loop" /\ existing = None /\ prod_id = 0
    /\ current = <<>> /\ vi = 0 /\ created = <<>> /\ created_summary = <<>>
    /\ netcalls = <<>>
    /\ prices_df = <<>> /\ df_prod = <<>>
    /\ variants = <<>> /\ warnings = <<>> /\ vpc = "idle"
    /\ sheet = [columns |-> <<>>, data |-> <<>>]
    /\ df = sheet /\ i = 0 /\ j = 0 /\ n = 0
    /\ titolo = Unset /\ sku = Unset /\ quantities = <<>>
    /\ rows = <<>> /\ result = <<>> /\ pc = "idle"
    /\ base_sku = <<>> /\ qty = 0 /\ pos = <<>>
    /\ sku1 = <<>> /\ sku2 = <<>> /\ spc = "idle"
    /\ price_sheet = [columns |-> <<>>, data |-> <<>>] /\ dfp = price_sheet
    /\ melted = <<>> /\ rpc = "idle"

SpecSync == InitSync /\ [][NextSync]_vars

-----------------------------------------------------------------------------
(* read_prices_from_excel: the price sheet found in the workbook, from the    *)
(* parse of the sheet on.  A column label is the text of its header cell, or  *)
(* an integer when the header cell holds a number; a row is the sequence of   *)
(* its cells, in column order.                                                *)

MaxMeltRows == 2

IntLabel(v) == [k |-> "int", v |-> v]

ALLOWED_QT == {1, 2, 3, 4, 5, 6, 7, 8, 9, 10, 15, 20, 50, 100}

\* the column names the code looks for, after normalize_columns
PosName == <<"p", "o", "s", "i", "z", "i", "o", "n", "e", " ", "s", "t", "a", "m", "p", "a">>
QtyName == <<"q", "u", "a", "n", "t", "i", "t", "à">>
PriceName == <<"p", "r", "e", "z", "z", "o">>

\* header cells as written in the workbooks of the model
HdrPos == Txt(<<"P", "o", "s", "i", "z", "i", "o", "n", "e", " ", "S", "t", "a", "m", "p", "a">>)
HdrQty == Txt(<<"Q", "u", "a", "n", "t", "i", "t", "à">>)
HdrPrice == Txt(<<"P", "r", "e", "z", "z", "o", " ">>)
HdrNote == Txt(<<"N", "o", "t", "e">>)

\* the column layouts: matrix sheets with text labels (allow-listed, padded,
\* outside the allow-list, annotation columns, the position column not first),
\* a matrix sheet with numeric header cells, sheets with no quantity column or
\* no position column, and tidy sheets
MeltLayouts ==
    { <<HdrPos, Txt(<<"1">>), Txt(<<"5", " ">>)>>,
      <<HdrPos, Txt(<<"1">>), HdrNote, Txt(<<"1", "1">>)>>,
      <<HdrNote, Txt(<<"1", "0">>), HdrPos, Txt(<<"1", "0", "0">>)>>,
      <<HdrPos, Txt(<<"1">>), IntLabel(11)>>,
      <<HdrPos, IntLabel(1), IntLabel(10)>>,
      <<HdrPos, HdrNote, Txt(<<"1", "1">>)>>,
      <<HdrNote, Txt(<<"1">>)>>,
      <<HdrPos, HdrQty, HdrPrice>>,
      <<HdrPos, HdrQty, HdrPrice, Txt(<<"1">>)>> }

\* the cells of the position column and of the other columns of a row
MeltPosCells == { Txt(<<"F", "r", " ">>), Txt(<<"R", "e">>), NaN }
MeltValueCells ==
    { <<Num(12900), Num(15000), Num(9990), Num(1000)>>,
      <<Txt(<<"1", "3", ".", "5">>), NaN, Txt(<<"x">>), Num(5000)>>,
      <<NaN, Txt(<<"x">>), Num(1500), NaN>>,
      <<Num(2000), Num(1500), Num(7000), Txt(<<"2">>)>> }

MkMeltRow(cols, p, vs) ==
    [x \in 1..Len(cols) |-> IF cols[x] = HdrPos THEN p ELSE vs[x]]

PriceSheets ==
    UNION { { [columns |-> cols, data |-> d] :
                d \in SeqsUpTo({ MkMeltRow(cols, p, vs) :
                                     p \in MeltPosCells, vs \in MeltValueCells },
                               MaxMeltRows) } :
            cols \in MeltLayouts }

\* lines 66-69: c.strip().lower() on every label; the labels are str
normalize_columns(d) ==
    [columns |-> [x \in 1..Len(d.columns) |-> Lower(Strip(d.columns[x].s))],
     data |-> d.data]

\* str.isdigit()
IsDigitStr(s) == s /= <<>> /\ \A x \in 1..Len(s) : IsDigit(s[x])

\* pd.to_numeric(errors="coerce") of one cell: a number, or NaN
ToNumeric(c) ==
    CASE c.k = "num" -> c
      [] c.k = "str" -> IF ParseFloat(c.s).ok THEN Num(ParseFloat(c.s).v) ELSE NaN
      [] OTHER -> NaN

\* Series.str.strip() of one cell: NaN for a cell that is no str
StrStrip(c) == IF c.k = "str" THEN Txt(Strip(c.s)) ELSE NaN

\* the .str accessor needs an object column: a column with rows and no text
\* cell is float64, and the accessor raises AttributeError
HasStrAccessor(cells) == cells = <<>> \/ \E x \in 1..Len(cells) : cells[x].k = "str"

ColIndex(d, name) == CHOOSE x \in 1..Len(d.columns) : d.columns[x] = name
Column(d, name) == [y \in 1..Len(d.data) |-> d.data[y][ColIndex(d, name)]]

\* the members of a set of indexes in increasing order
RECURSIVE InOrder(_)
InOrder(S) ==
    IF S = {} THEN <<>>
    ELSE LET least == CHOOSE x \in S : \A y \in S : x <= y
         IN  <<least>> \o InOrder(S \ {least})

\* line 121: the tidy test
IsTidy(d) == {PosName, QtyName, PriceName} \subseteq Range(d.columns)

\* lines 122-123: the quantity and price columns made numeric
TidyNumeric(d) ==
    [y \in 1..Len(d.data) |->
        [pos |-> d.data[y][ColIndex(d, PosName)],
         q |-> ToNumeric(d.data[y][ColIndex(d, QtyName)]),
         prezzo |-> ToNumeric(d.data[y][ColIndex(d, PriceName)])]]

\* astype("Int64") accepts missing values and whole numbers only
FitsInt64(t) == \A y \in 1..Len(t) : t[y].q.k = "num" => t[y].q.v % 1000 = 0

\* lines 124-126: rows without quantity or price dropped, positions stripped
TidyRows(d) ==
    LET t == TidyNumeric(d)
        kept == FilterSeq(t, {r \in Range(t) : notna(r.q) /\ notna(r.prezzo)})
    IN  [y \in 1..Len(kept) |->
            [pos |-> StrStrip(kept[y].pos), q |-> IntOf(kept[y].q.v),
             prezzo |-> kept[y].prezzo.v]]

\* line 130: the columns, in sheet order, whose label is a digit string naming
\* an allowed quantity
qty_cols(d) ==
    InOrder({x \in 1..Len(d.columns) :
                /\ d.columns[x] /= PosName
                /\ IsDigitStr(d.columns[x])
                /\ NatOfDigits(d.columns[x]) \in ALLOWED_QT})

\* line 132: DataFrame.melt, one row per value column and sheet row, the value
\* columns in order and the sheet rows in order within each
Melt(d, cols) ==
    [y \in 1..(Len(cols) * Len(d.data)) |->
        LET c == cols[((y - 1) \div Len(d.data)) + 1]
            r == d.data[((y - 1) % Len(d.data)) + 1]
        IN  [pos |-> r[ColIndex(d, PosName)], q |-> d.columns[c], prezzo |-> r[c]]]

\* lines 133-136: quantity and price made numeric, rows without price dropped,
\* positions stripped
MeltRows(d) ==
    LET m0 == Melt(d, qty_cols(d))
        m1 == [y \in 1..Len(m0) |->
                  [pos |-> m0[y].pos, q |-> NatOfDigits(m0[y].q),
                   prezzo |-> ToNumeric(m0[y].prezzo)]]
        kept == FilterSeq(m1, {r \in Range(m1) : notna(r.prezzo)})
    IN  [y \in 1..Len(kept) |->
            [pos |-> StrStrip(kept[y].pos), q |-> kept[y].q,
             prezzo |-> kept[y].prezzo.v]]

\* line 119: the labels are all text and normalize_columns returns
NormalizeOk ==
    /\ rpc = "start"
    /\ \A x \in 1..Len(price_sheet.columns) : price_sheet.columns[x].k = "str"
    /\ dfp' = normalize_columns(price_sheet)
    /\ rpc' = "normalized"
    /\ UNCHANGED <<price_sheet, melted>>
    /\ UNCHANGED <<parseVars, variantVars, skuVars, syncVars>>

\* lines 119 and 67: a label read from a numeric header cell has no strip()
NormalizeRaise ==
    /\ rpc = "start"
    /\ \E x \in 1..Len(price_sheet.columns) : price_sheet.columns[x].k /= "str"
    /\ rpc' = "error"
    /\ UNCHANGED <<price_sheet, dfp, melted>>
    /\ UNCHANGED <<parseVars, variantVars, skuVars, syncVars>>

\* lines 121-127: the tidy case
TidyCase ==
    /\ rpc = "normalized" /\ IsTidy(dfp)
    /\ FitsInt64(TidyNumeric(dfp))
    /\ HasStrAccessor(Column(dfp, PosName))
    /\ melted' = TidyRows(dfp)
    /\ rpc' = "done"
    /\ UNCHANGED <<price_sheet, dfp>>
    /\ UNCHANGED <<parseVars, variantVars, skuVars, syncVars>>

\* lines 122 and 125: astype("Int64") or the .str accessor raises
TidyRaise ==
    /\ rpc = "normalized" /\ IsTidy(dfp)
    /\ ~FitsInt64(TidyNumeric(dfp)) \/ ~HasStrAccessor(Column(dfp, PosName))
    /\ rpc' = "error"
    /\ UNCHANGED <<price_sheet, dfp, melted>>
    /\ UNCHANGED <<parseVars, variantVars, skuVars, syncVars>>

\* lines 129-137: the matrix case
MeltCase ==
    /\ rpc = "normalized" /\ ~IsTidy(dfp)
    /\ PosName \in Range(dfp.columns)
    /\ qty_cols(dfp) /= <<>>
    /\ HasStrAccessor(Column(dfp, PosName))
    /\ melted' = MeltRows(dfp)
    /\ rpc' = "done"
    /\ UNCHANGED <<price_sheet, dfp>>
    /\ UNCHANGED <<parseVars, variantVars, skuVars, syncVars>>

\* line 136: the .str accessor raises on a position column without text
MeltRaise ==
    /\ rpc = "normalized" /\ ~IsTidy(dfp)
    /\ PosName \in Range(dfp.columns)
    /\ qty_cols(dfp) /= <<>>
    /\ ~HasStrAccessor(Column(dfp, PosName))
    /\ rpc' = "error"
    /\ UNCHANGED <<price_sheet, dfp, melted>>
    /\ UNCHANGED <<parseVars, variantVars, skuVars, syncVars>>

\* line 140: no position column, or no quantity column: None is returned
NoPrices ==
    /\ rpc = "normalized" /\ ~IsTidy(dfp)
    /\ PosName \notin Range(dfp.columns) \/ qty_cols(dfp) = <<>>
    /\ rpc' = "none"
    /\ UNCHANGED <<price_sheet, dfp, melted>>
    /\ UNCHANGED <<parseVars, variantVars, skuVars, syncVars>>

NextMelt ==
    \/ NormalizeOk
    \/ NormalizeRaise
    \/ TidyCase
    \/ TidyRaise
    \/ MeltCase
    \/ MeltRaise
    \/ NoPrices

InitMelt ==
    /\ price_sheet \in PriceSheets
    /\ dfp = [columns |-> <<>>, data |-> <<>>] /\ melted = <<>> /\ rpc = "start"
    /\ sheet = [columns |-> <<>>, data |-> <<>>]
    /\ df = sheet /\ i = 0 /\ j = 0 /\ n = 0
    /\ titolo = Unset /\ sku = Unset /\ quantities = <<>>
    /\ rows = <<>> /\ result = <<>> /\ pc = "idle"
    /\ prices_df = <<>> /\ df_prod = <<>> /\ price_lookup = <<>>
    /\ variants = <<>> /\ warnings = <<>> /\ vpc = "idle"
    /\ base_sku = <<>> /\ qty = 0 /\ pos = <<>>
    /\ sku1 = <<>> /\ sku2 = <<>> /\ spc = "idle"
    /\ groups = <<>> /\ gi = 0 /\ mpc = "idle" /\ existing = None /\ prod_id = 0
    /\ current = <<>> /\ vi = 0 /\ created = <<>> /\ created_summary = <<>>
    /\ netcalls = <<>> /\ remote = <<>> /\ nextId = 0

SpecMelt == InitMelt /\ [][NextMelt]_vars

-----------------------------------------------------------------------------
(* parse_pricing_matrix: the input sheet as the claims read it *)

\* row k of the input sheet (k from 1) has title and sku present
BlockStartAt(k) ==
    /\ notna(RowGet(sheet.data[k], "Titolo Prodotto"))
    /\ notna(RowGet(sheet.data[k], "SKU"))

PositionAt(k) == notna(RowGet(sheet.data[k], "Posizione Stampa"))

HeaderAt(k) == BlockStartAt(k) /\ ~PositionAt(k)

\* row r is read as a row of the block whose header row is h
InBlockOf(h, r) == h < r /\ \A m \in (h + 1)..r : ~BlockStartAt(m)

HasQuantityColumn == "Quantità" \in Range(sheet.columns)

\* the columns of the sheet at or to the right of "Quantità"
BreakpointColumns ==
    IF HasQuantityColumn
    THEN {sheet.columns[k] : k \in IndexOf(sheet.columns, "Quantità")..Len(sheet.columns)}
    ELSE {}

\* the cell converts with float()
Numeric(cell) == notna(cell) /\ FloatOf(cell).ok

\* column c of header row h holds breakpoint q
BreakpointOf(h, c, q) ==
    /\ c \in BreakpointColumns
    /\ Numeric(sheet.data[h][c])
    /\ IntOf(FloatOf(sheet.data[h][c]).v) = q

\* output row t comes from breakpoint column c of header h and position row r
ComesFrom(t, h, r, c) ==
    /\ HeaderAt(h) /\ InBlockOf(h, r) /\ PositionAt(r)
    /\ t.title = sheet.data[h]["Titolo Prodotto"].s
    /\ t.sku = sheet.data[h]["SKU"].s
    /\ BreakpointOf(h, c, t.q)
    /\ t.pos = Strip(StrOf(sheet.data[r]["Posizione Stampa"]))
    /\ Numeric(sheet.data[r][c])
    /\ t.prezzo = Round2(FloatOf(sheet.data[r][c]).v)

Traceable(t) ==
    \E h \in 1..Len(sheet.data), r \in 1..Len(sheet.data), c \in Range(sheet.columns) :
        ComesFrom(t, h, r, c)

\* C1: every emitted row, collected or returned, carries a quantity captured as
\* a breakpoint from the header row of its block, the title and sku of that
\* header, and the price of the cell in the same breakpoint column of a
\* position row of that block.
C1_RowsComeFromHeaderBreakpoints ==
    /\ \A k \in 1..Len(rows) : Traceable(rows[k])
    /\ pc = "done" => \A k \in 1..Len(result) : Traceable(result[k])

\* a parse has returned two rows or more from a sheet whose "Quantità"
\* column is not the first data column
C1_Witness ==
    /\ pc = "done" /\ Len(result) >= 2
    /\ sheet.columns = ColsQtyLast

\* C2: while the position rows of a block are read, the block's title, sku and
\* breakpoints are those of its header row i and no row read so far starts a
\* block; a row with title and sku present ends the block without emitting
\* anything and becomes the outer row, which, when its position is absent, is
\* taken as a header (its title and sku captured; the block opens, or the
\* missing-column error is raised); the rows appended afterwards carry the
\* title, sku and breakpoints of the header row then current.
C2_InBlock ==
    pc = "inner" =>
        /\ HeaderAt(i + 1)
        /\ titolo = sheet.data[i + 1]["Titolo Prodotto"].s
        /\ sku = sheet.data[i + 1]["SKU"].s
        /\ \A m \in (i + 2)..j : ~BlockStartAt(m)
        /\ \A k \in 1..Len(quantities) :
               BreakpointOf(i + 1, quantities[k][1], quantities[k][2])

C2_Step ==
    /\ (pc = "inner" /\ j < n /\ BlockStartAt(j + 1))
           => (pc' = "outer" /\ i' = j /\ rows' = rows)
    /\ (pc = "outer" /\ i < n /\ HeaderAt(i + 1))
           => /\ i' = i /\ rows' = rows
              /\ titolo' = sheet.data[i + 1]["Titolo Prodotto"].s
              /\ sku' = sheet.data[i + 1]["SKU"].s
              /\ \/ pc' = "inner" /\ j' = i + 1
                 \/ pc' = "error"
    /\ rows' /= rows =>
           /\ pc = "inner"
           /\ \A k \in (Len(rows) + 1)..Len(rows') :
                  /\ rows'[k].title = sheet.data[i + 1]["Titolo Prodotto"].s
                  /\ rows'[k].sku = sheet.data[i + 1]["SKU"].s
                  /\ \E c \in Range(sheet.columns) : BreakpointOf(i + 1, c, rows'[k].q)

\* C2: the row that ends a block is re-processed as a header candidate: C2_InBlock
\* holds in every state and C2_Step of every step.
C2_NewBlockRowIsReprocessed == [](C2_InBlock) /\ [][C2_Step]_vars

\* a second block, opened by the row that ended the first, has emitted a row
\* under its own title
C2_Witness ==
    /\ pc = "inner" /\ i >= 1 /\ rows /= <<>>
    /\ \E h \in 1..i : /\ HeaderAt(h)
                       /\ \A m \in (h + 1)..i : ~BlockStartAt(m)
                       /\ sheet.data[h]["Titolo Prodotto"] /= sheet.data[i + 1]["Titolo Prodotto"]
    /\ rows[Len(rows)].title = sheet.data[i + 1]["Titolo Prodotto"].s

\* the indexes of the breakpoints whose price cell in row r2 converts
GoodBreakpoints(r2) ==
    {k \in 1..Len(quantities) : Numeric(RowGet(r2, quantities[k][1]))}

\* the m-th smallest element of a set of numbers
NthOf(S, m) == CHOOSE k \in S : Cardinality({x \in S : x < k}) = m - 1

\* C3: a position row appends exactly one row per breakpoint whose price cell
\* is present and numeric, in breakpoint order, and none for a breakpoint whose
\* cell is absent or non-numeric; the step raises no error and the scan goes on
\* to the next row.
C3_Step ==
    (pc = "inner" /\ j < n /\ ~BlockStartAt(j + 1) /\ PositionAt(j + 1)) =>
        LET r2 == sheet.data[j + 1]
            good == GoodBreakpoints(r2)
        IN  /\ pc' = "inner" /\ j' = j + 1
            /\ Len(rows') = Len(rows) + Cardinality(good)
            /\ SubSeq(rows', 1, Len(rows)) = rows
            /\ \A m \in 1..Cardinality(good) :
                   LET k == NthOf(good, m)
                       t == rows'[Len(rows) + m]
                   IN  /\ t.q = quantities[k][2]
                       /\ t.prezzo = Round2(FloatOf(r2[quantities[k][1]]).v)
                       /\ t.pos = Strip(StrOf(r2["Posizione Stampa"]))

\* C3: every step of the scan satisfies C3_Step: a malformed price cell skips
\* its own breakpoint only.
C3_MalformedPriceCellSkipped == [][C3_Step]_vars

\* a position row with a non-numeric price cell under the first breakpoint has
\* just been read, and the row of its second breakpoint was appended
C3_Witness ==
    /\ pc = "inner" /\ j >= i + 2 /\ Len(quantities) = 2
    /\ PositionAt(j)
    /\ notna(RowGet(sheet.data[j], quantities[1][1]))
    /\ ~Numeric(RowGet(sheet.data[j], quantities[1][1]))
    /\ Numeric(RowGet(sheet.data[j], quantities[2][1]))
    /\ rows /= <<>>
    /\ rows[Len(rows)].pos = Strip(StrOf(sheet.data[j]["Posizione Stampa"]))
    /\ rows[Len(rows)].q = quantities[2][2]

\* C4: a table with no "Quantità" column never yields a result table: the
\* parse fails with the missing-column error whatever its rows are.
C4_MissingQuantityColumnFails == ~HasQuantityColumn => pc /= "done"

\* C5: in the returned table no two rows share (title, sku, position, quantity).
C5_NoDuplicatePairs ==
    pc = "done" =>
        \A a \in 1..Len(result), b \in 1..Len(result) :
            (/\ result[a].title = result[b].title /\ result[a].sku = result[b].sku
             /\ result[a].pos = result[b].pos /\ result[a].q = result[b].q) => a = b

\* C6: the returned table is ascending by (title, sku, position, quantity) and
\* sorting it again by the same key leaves it unchanged.
C6_ResultSorted ==
    pc = "done" =>
        /\ \A k \in 1..(Len(result) - 1) : ~KeyLess(result[k + 1], result[k])
        /\ SortValues(result) = result

\* a parse has returned a table whose blocks appeared in the sheet in descending
\* title order: the emitted rows start with product B, the result with product A
C6_Witness ==
    /\ pc = "done" /\ Len(result) >= 2 /\ result /= rows
    /\ rows[1].title = <<"B">> /\ result[1].title = <<"A">>

\* the string f"{base_sku}-{qty}-{pos_slug}" of the current arguments
FullSku == base_sku \o <<"-">> \o DecimalOf(qty) \o <<"-">> \o PosSlug(pos)

\* C10: the returned SKU has at most 63 characters, is the first 63 characters
\* of "{base_sku}-{quantity}-{slug}" (all of it when it is shorter), and a
\* second call with the same inputs returns the same string.
C10_SkuTruncatedTo63 ==
    /\ spc \in {"once", "twice"} =>
           LET full == FullSku
           IN  /\ Len(sku1) <= 63
               /\ Len(sku1) = (IF Len(full) < 63 THEN Len(full) ELSE 63)
               /\ \A m \in 1..Len(sku1) : sku1[m] = full[m]
    /\ spc = "twice" => sku2 = sku1

\* both calls were made on inputs whose full string is longer than 63
\* characters and whose label holds a space, a plus and an accent to replace
C10_Witness ==
    /\ spc = "twice" /\ Len(FullSku) > 63 /\ Len(sku1) = 63
    /\ PosSlug(pos) /= pos /\ Len(PosSlug(pos)) /= Len(pos)

\* the rows of the product table whose key is in the index
KeptRows == {m \in 1..Len(df_prod) : LookupKey(df_prod[m]) \in DOMAIN price_lookup}
DroppedRows == (1..Len(df_prod)) \ KeptRows

\* C8: build_variants_for_product returns one variant, in row order, for each
\* row whose (trimmed position, quantity) key is in the index, priced from the
\* index, and reports one skipped combination for each other row: variants
\* plus skips number the input rows, and no dropped row gets a default price.
C8_VariantsPlusSkipsAreTheRows ==
    vpc = "built" =>
        /\ Len(variants) = Cardinality(KeptRows)
        /\ Len(warnings) = Cardinality(DroppedRows)
        /\ Len(variants) + Len(warnings) = Len(df_prod)
        /\ \A x \in 1..Len(variants) :
               LET row == df_prod[NthOf(KeptRows, x)]
               IN  /\ variants[x].option1 = row.q
                   /\ variants[x].option2 = Strip(row.pos)
                   /\ variants[x].price = Fmt2(price_lookup[LookupKey(row)])
        /\ \A x \in 1..Len(warnings) :
               warnings[x] = LookupKey(df_prod[NthOf(DroppedRows, x)])

\* a product table of two rows was built into one variant and one reported skip
C8_Witness ==
    /\ vpc = "built" /\ Len(df_prod) = 2
    /\ Len(variants) = 1 /\ Len(warnings) = 1
    /\ price_lookup /= <<>>

\* the keys a caller may look up
ProbeKeys == {<<p, x>> : p \in {<<"F", "r">>, <<"R", "e">>, <<"L", "c">>}, x \in 1..3}

\* C9: the key set of the lookup is exactly the set of (trimmed position,
\* quantity) pairs of the price table, each key maps to the price of the last
\* row holding it, and a pair not in the table has no price.
C9_LookupIsLastWriteExactMatch ==
    vpc \in {"lookup", "built"} =>
        /\ DOMAIN price_lookup = {LookupKey(prices_df[m]) : m \in 1..Len(prices_df)}
        /\ \A key \in DOMAIN price_lookup :
               LET last == CHOOSE m \in 1..Len(prices_df) :
                               /\ LookupKey(prices_df[m]) = key
                               /\ \A x \in (m + 1)..Len(prices_df) :
                                      LookupKey(prices_df[x]) /= key
               IN  price_lookup[key] = prices_df[last].prezzo
        /\ \A key \in ProbeKeys :
               (\A m \in 1..Len(prices_df) : LookupKey(prices_df[m]) /= key)
                   => LookupGet(price_lookup, key) = NoPrice

\* a lookup was built from a table that gives one key two prices, the first
\* under a padded label
C9_Witness ==
    /\ vpc = "lookup" /\ Len(prices_df) = 2
    /\ prices_df[1].pos /= Strip(prices_df[1].pos)
    /\ LookupKey(prices_df[1]) = LookupKey(prices_df[2])
    /\ prices_df[1].prezzo /= prices_df[2].prezzo
    /\ Cardinality(DOMAIN price_lookup) = 1

\* C7: no build_variants_for_product step occurs after a request to the
\* commerce API has been issued: the variant records of all products are built
\* before the first network call.
C7_Step == (mpc = "build" /\ mpc' /= "build") => netcalls = <<>>

\* C7: every step of a sync run satisfies C7_Step: variants are never built
\* once a request has been issued.
C7_NoBuildAfterNetworkCall == [][C7_Step]_vars

\* the last row at or before r (rows from 1) that has title and sku present, 0
\* when there is none
LastBlockStart(r) ==
    IF \E m \in 1..r : BlockStartAt(m)
    THEN CHOOSE m \in 1..r : BlockStartAt(m) /\ \A x \in (m + 1)..r : ~BlockStartAt(x)
    ELSE 0

\* C12 (one step): a row with title, sku and position all present is passed
\* over by the outer loop without opening a block or emitting, and ends the
\* block being read; rows are appended only for a row whose last row with
\* title and sku present, before it, has its position absent, so that position
\* rows after an all-present row, or before the first header, emit nothing.
C12_Step ==
    /\ (pc = "outer" /\ i < n /\ BlockStartAt(i + 1) /\ PositionAt(i + 1))
           => (pc' = "outer" /\ i' = i + 1 /\ rows' = rows
               /\ titolo' = titolo /\ sku' = sku /\ quantities' = quantities)
    /\ (pc = "inner" /\ j < n /\ BlockStartAt(j + 1) /\ PositionAt(j + 1))
           => (pc' = "outer" /\ i' = j /\ rows' = rows)
    /\ rows' /= rows =>
           /\ j' = j + 1
           /\ LastBlockStart(j + 1) \in 1..j
           /\ HeaderAt(LastBlockStart(j + 1))

\* C12: every step of the scan satisfies C12_Step: a row with title, sku and
\* position all present is never a header, closes the block before it, and no
\* position row emits until the next header row.
C12_AllPresentRowIsNoHeader == [][C12_Step]_vars

\* a parse has ended on a sheet made of a header row, a position row that
\* emitted, a row with title, sku and position present, and a position row with
\* a price under a breakpoint, which emitted nothing
C12_Witness ==
    /\ pc = "done" /\ Len(sheet.data) = 4
    /\ HeaderAt(1)
    /\ ~BlockStartAt(2) /\ PositionAt(2)
    /\ BlockStartAt(3) /\ PositionAt(3)
    /\ ~BlockStartAt(4) /\ PositionAt(4)
    /\ \E c \in Range(sheet.columns), x \in 1..3 :
           BreakpointOf(1, c, x) /\ Numeric(sheet.data[2][c]) /\ Numeric(sheet.data[4][c])
    /\ rows /= <<>>
    /\ \A t \in Range(rows) : \E c \in Range(sheet.columns) : ComesFrom(t, 1, 2, c)

\* the work left to the scan: it decreases with every step
Measure ==
    CASE pc = "start" -> 2 * Len(sheet.data) + 2
      [] pc = "outer" -> 2 * (n - i) + 1
      [] pc = "inner" -> 2 * (n - j) + 2
      [] OTHER -> 0

\* C14 (one state): the indexes stay within the sheet, and the measure is a
\* natural number that is 0 only when the scan has returned or raised.
C14_Bounds ==
    /\ pc = "outer" => i \in 0..n
    /\ pc = "inner" => i < j /\ j <= n
    /\ Measure \in Nat
    /\ Measure = 0 <=> pc \in {"done", "error"}

\* C14 (one step): the outer index never decreases; it grows by one on a
\* non-header row and to the closing index j >= i + 1 when a block ends; the
\* inner loop reads row j, beyond the outer index, once and moves on.
C14_Step ==
    /\ Measure' < Measure
    /\ i' >= i
    /\ (pc = "outer" /\ pc' = "outer") => i' = i + 1
    /\ (pc = "inner" /\ pc' = "outer") => (i' = j /\ j >= i + 1)
    /\ (pc = "inner" /\ pc' = "inner") => (j' = j + 1 /\ i' = i /\ j > i)

\* C14 (the result): every position row of every block, the block the input
\* ends included, has its priced breakpoints in the returned table.
C14_BlocksComplete ==
    pc = "done" =>
        \A h \in 1..Len(sheet.data), r \in 1..Len(sheet.data), c \in Range(sheet.columns) :
            (/\ HeaderAt(h) /\ InBlockOf(h, r) /\ PositionAt(r)
             /\ Numeric(sheet.data[h][c]) /\ c \in BreakpointColumns
             /\ Numeric(sheet.data[r][c]))
                => \E t \in Range(result) : ComesFrom(t, h, r, c)

\* C14: the row scan terminates on every sheet: the natural number Measure
\* decreases with every step and is 0 only when the scan has returned or
\* raised (C14_Bounds, C14_Step), so no run is longer than 2 * rows + 2 steps; the outer index strictly increases, each row is read by
\* the inner loop of one block only, and every block is emitted whole.
C14_ScanTerminates ==
    /\ [](C14_Bounds /\ C14_BlocksComplete)
    /\ [][C14_Step]_vars

\* a parse has returned on a sheet whose last row is a position row of the
\* block open at the end of the input, and that row's price is in the result
C14_Witness ==
    /\ pc = "done" /\ Len(sheet.data) >= 3
    /\ PositionAt(Len(sheet.data)) /\ ~BlockStartAt(Len(sheet.data))
    /\ \E h \in 1..(Len(sheet.data) - 2), c \in Range(sheet.columns) :
           \E t \in Range(result) : ComesFrom(t, h, Len(sheet.data), c)

\* the requests made since the listing of the variants in this call of
\* shopify_replace_variants: the last m requests of the log
SinceListing(m) == SubSeq(netcalls, Len(netcalls) - m + 1, Len(netcalls))

\* the listed variants that the product still holds, in listing order
NotDeleted ==
    FilterSeq(current, {v \in Range(current) : v \in Range(remote[prod_id])})

\* the delete loop: while deleting, the requests since the listing are one
\* DELETE for each of the first vi listed variants, in order, and no POST
C13_DeletesFirst ==
    mpc = "delete" =>
        /\ vi \in 0..Len(current)
        /\ Len(netcalls) > vi
        /\ netcalls[Len(netcalls) - vi] = Request("GET", "/products/{id}/variants.json", prod_id)
        /\ \A x \in 1..vi :
               SinceListing(vi)[x] = Request("DELETE", "/variants/{id}.json", current[x].id)

\* one step of the loops: the delete loop is left only for the creates, and
\* only when every listed variant was attempted; a DELETE, failing or not,
\* moves to the next variant; the create loop requests nothing but the POST
C13_LoopStep ==
    /\ mpc = "delete" =>
           \/ mpc' = "delete" /\ vi' = vi + 1 /\ Len(netcalls') = Len(netcalls) + 1
           \/ mpc' = "create" /\ vi = Len(current) /\ netcalls' = netcalls
    /\ (mpc = "delete" /\ warnings' /= warnings) =>
           /\ mpc' = "delete" /\ remote' = remote
           /\ warnings' = Append(warnings, <<"Impossibile cancellare variante", current[vi + 1].id>>)
    /\ (mpc = "delete" /\ mpc' = "delete" /\ warnings' = warnings) =>
           remote' = [remote EXCEPT ![prod_id] = WithoutVariant(@, current[vi + 1].id)]
    /\ (mpc = "create" /\ netcalls' /= netcalls) =>
           netcalls' = Append(netcalls, Request("POST", "/products/{id}/variants.json", prod_id))

\* the claim as stated, for the failing POST: the product is left with the old
\* variants deleted and only the variants created so far
C13_OldAllDeletedStep ==
    (mpc = "create" /\ mpc' = "aborted") =>
        /\ remote' = remote /\ created' = created
        /\ remote'[prod_id] = created'

\* C13 (as stated): within one call of shopify_replace_variants every listed
\* variant gets its DELETE attempt before the first POST, a failing DELETE is
\* warned about and stops nothing, and a failing POST ends the call leaving the
\* product with the old variants deleted and only the variants created so far.
C13_FailedCreateLeavesOnlyCreated ==
    [](C13_DeletesFirst) /\ [][C13_LoopStep /\ C13_OldAllDeletedStep]_vars

\* the failing POST, amended: the product is left with the old variants whose
\* DELETE failed, each of them warned about, followed by the variants created
\* so far
C13_NotDeletedKeptStep ==
    (mpc = "create" /\ mpc' = "aborted") =>
        /\ remote' = remote /\ created' = created
        /\ remote'[prod_id] = NotDeleted \o created'
        /\ \A v \in Range(NotDeleted) :
               <<"Impossibile cancellare variante", v.id>> \in Range(warnings)

\* C13 (amended): within one call of shopify_replace_variants every listed
\* variant gets its DELETE attempt before the first POST, a failing DELETE is
\* warned about and stops nothing, and a failing POST ends the call leaving the
\* product with the old variants whose DELETE failed and, of the new ones,
\* only the variants created so far.
C13_DeleteAllThenCreate ==
    [](C13_DeletesFirst) /\ [][C13_LoopStep /\ C13_NotDeletedKeptStep]_vars

\* a call has ended on a failing POST after one DELETE failed, one DELETE
\* succeeded and one variant was created
C13_Witness ==
    /\ mpc = "aborted"
    /\ netcalls /= <<>>
    /\ netcalls[Len(netcalls)] = Request("POST", "/products/{id}/variants.json", prod_id)
    /\ Len(current) = 2 /\ Len(NotDeleted) = 1
    /\ Len(created) = 1
    /\ remote[prod_id] = NotDeleted \o created

-----------------------------------------------------------------------------
(* read_prices_from_excel: the price sheet as the claims read it *)

\* the text of a label written as text, stripped and lowered; <<>> for a
\* numeric label
LabelName(l) == IF l.k = "str" THEN Lower(Strip(l.s)) ELSE <<>>

IsPositionColumn(x) == LabelName(price_sheet.columns[x]) = PosName

\* the label is a digit string naming an allow-listed quantity
Qualifies(x) ==
    /\ price_sheet.columns[x].k = "str"
    /\ IsDigitStr(LabelName(price_sheet.columns[x]))
    /\ NatOfDigits(LabelName(price_sheet.columns[x])) \in ALLOWED_QT

\* a sheet with a position column and a qualifying column that is no tidy sheet
MatrixShaped ==
    /\ \E x \in 1..Len(price_sheet.columns) : IsPositionColumn(x)
    /\ \E x \in 1..Len(price_sheet.columns) : Qualifies(x)
    /\ ~({QtyName, PriceName} \subseteq
            {LabelName(price_sheet.columns[x]) : x \in 1..Len(price_sheet.columns)})

\* the (sheet row, qualifying column) pairs with a numeric cell
NumericPairs ==
    {yx \in (1..Len(price_sheet.data)) \X (1..Len(price_sheet.columns)) :
        Qualifies(yx[2]) /\ Numeric(price_sheet.data[yx[1]][yx[2]])}

\* C11: for a matrix-shaped price sheet the melt returns, with no error, one
\* row per (sheet row, qualifying column) pair with a numeric cell, carrying
\* the quantity of the label and the price of the cell; columns with any other
\* label, "Note" or 11, add no row and no error, so the number of rows is the
\* number of numeric cells in qualifying columns.
C11_MeltRowPerNumericCell ==
    (rpc \in {"done", "error", "none"} /\ MatrixShaped) =>
        /\ rpc = "done"
        /\ Len(melted) = Cardinality(NumericPairs)
        /\ \A yx \in NumericPairs :
               \E t \in Range(melted) :
                   /\ t.q = NatOfDigits(LabelName(price_sheet.columns[yx[2]]))
                   /\ t.prezzo = FloatOf(price_sheet.data[yx[1]][yx[2]]).v

====
